---------------------------- MODULE Spec2Model ----------------------------
(***************************************************************************)
(* DevMarkBackend: the project lifecycle, the marketplace listing/purchase *)
(* flow and the payment reconciliation flow, as request handlers running   *)
(* concurrently against a document store.                                  *)
(*                                                                         *)
(* Every "await" on the store or on the payment gateway is a suspension    *)
(* point: a handler is a sequence of atomic steps, one per store/gateway   *)
(* operation, and the steps of different in-flight requests interleave.    *)
(* Code that runs between two awaits is part of the step that precedes it. *)
(*                                                                         *)
(* Documents are loaded with findById and written back with doc.save().   *)
(* save() issues an update of the paths modified since the load            *)
(* ($set of the changed fields, filtered by _id only), after running the   *)
(* schema validators; it throws when the document no longer exists.        *)
(*                                                                         *)
(* The source addresses the Project document under two shapes: the         *)
(* marketplace and payment controllers use the flat names (status,         *)
(* isForSale, soldTo, soldAt, price), the project controller the nested    *)
(* ones (metadata.status, marketplace.isForSale, ...), and the list query  *)
(* matches either.  The model keeps one field per attribute; the nested    *)
(* schema is the one createProject's payload is validated against.         *)
(* Fields no claim reads (titles, media, timestamps of review) are left    *)
(* out: no handler's control flow depends on them.                         *)
(***************************************************************************)
EXTENDS Integers, FiniteSets, Sequences, TLC

VARIABLES
    projects,   \* the Project collection: id -> document, existing ids only
    nextPid,    \* the next Project id the store hands out
    orders,     \* the Order collection: id -> document (Orders are never deleted)
    req,        \* the in-flight requests: slot -> handler invocation
    bought,     \* the purchases buyProject has answered with success: <<buyer, project>>
    users       \* the User collection: the users whose document exists

vars == <<projects, nextPid, orders, req, bought, users>>

-----------------------------------------------------------------------------
(* Bounds of the model *)

MaxInFlight == 2
MaxProjects == 1
MaxOrders == 2
MaxSales == 2

Slots == 1..MaxInFlight
Pids == 1..MaxProjects
Oids == 1..MaxOrders

-----------------------------------------------------------------------------
(* Users and roles *)

NoUser == "none"
Users == {"owner", "alice", "bob", "admin"}
Sellers == {"owner"}
Buyers == {"alice", "bob"}

role(u) == IF u = "admin" THEN "admin" ELSE "user"

\* auth.middleware restrictTo(...roles): passes iff the caller's role is listed
restrictTo(roles, u) == role(u) \in roles

-----------------------------------------------------------------------------
(* The Project document *)

StatusEnum == {"draft", "pending", "submitted", "approved", "rejected"}

NoReason == "null"
Reasons == {"needs more detail"}
Prices == {100, 200}

ProjectFields ==
    {"owner", "status", "rejectionReason", "isForSale", "soldTo", "soldAt", "price"}

\* the value a path holds in a pending update when the path is not modified
BlankProject ==
    [owner |-> NoUser, status |-> "draft", rejectionReason |-> NoReason,
     isForSale |-> FALSE, soldTo |-> NoUser, soldAt |-> 0, price |-> 0]

\* schema validators that save() and create() run on the written paths
ProjectValid(doc) ==
    /\ doc.status \in StatusEnum
    /\ doc.price >= 0
    /\ doc.owner # NoUser

\* the paths of an in-memory document `new` that differ from the loaded `old`
ModifiedPaths(old, new) == {f \in ProjectFields : new[f] # old[f]}

\* the pending update of a document loaded as `old` and changed to `new`
PendingUpdate(old, new) ==
    [mod  |-> ModifiedPaths(old, new),
     vals |-> [f \in ProjectFields |->
                 IF new[f] # old[f] THEN new[f] ELSE BlankProject[f]]]

NoUpdate == [mod |-> {}, vals |-> BlankProject]

\* the stored document after the update `u` ($set of the modified paths)
ApplyUpdate(doc, u) ==
    [f \in ProjectFields |-> IF f \in u.mod THEN u.vals[f] ELSE doc[f]]

-----------------------------------------------------------------------------
(* The Order document *)

OrderStatusEnum == {"pending", "processing", "paid", "failed", "refunded"}
NoTxn == "null"
TxnIds == {"sale-1"}

-----------------------------------------------------------------------------
(* Requests *)

Idle ==
    [op |-> "none", pc |-> "idle", caller |-> NoUser, pid |-> 0, oid |-> 0,
     upd |-> NoUpdate, txn |-> NoTxn, lock |-> FALSE,
     popd |-> FALSE, sess |-> FALSE, dirty |-> FALSE, rawErr |-> FALSE,
     errType |-> "none", amount |-> 0]

\* a new request takes the first free slot (the slots are interchangeable)
Free(s) ==
    /\ req[s].pc = "idle"
    /\ \A t \in Slots : t < s => req[t].pc # "idle"

\* an open transaction of another request holds a write on Order o
OrderLocked(s, o) ==
    \E t \in Slots \ {s} : /\ req[t].op = "processPayment"
                           /\ req[t].pc \in {"txProject", "commit"}
                           /\ req[t].oid = o

\* an open transaction of another request holds a write on Project p
ProjectLocked(s, p) ==
    \E t \in Slots \ {s} : /\ req[t].op = "processPayment"
                           /\ req[t].pc = "commit"
                           /\ req[t].pid = p
                           /\ req[t].upd.mod # {}

\* the handler in slot s sends its response (the HTTP status `code`) and ends
Respond(s, code) == req' = [req EXCEPT ![s] = Idle]

\* the handler in slot s goes on to its next await
Continue(s, r) == req' = [req EXCEPT ![s] = r]

\* a handler that has loaded Project p and will save the update `upd`
Saving(op, u, p, upd) ==
    [Idle EXCEPT !.op = op, !.pc = "save", !.caller = u, !.pid = p, !.upd = upd]

Exists(p) == p \in DOMAIN projects

\* Model.findByIdAndDelete / removal of one document
Remove(p) == [q \in DOMAIN projects \ {p} |-> projects[q]]

\* Model.create: the collection with one more document
Insert(p, doc) == [q \in DOMAIN projects \cup {p} |-> IF q = p THEN doc ELSE projects[q]]

-----------------------------------------------------------------------------
Init ==
    /\ projects = [p \in {} |-> BlankProject]
    /\ nextPid = 1
    /\ orders = <<>>
    /\ req = [s \in Slots |-> Idle]
    /\ bought = {}
    /\ users = Users

\* doc.save() of a loaded Project: nothing modified is no store operation;
\* otherwise the validators run and the update is applied to the stored
\* document, which must still exist.
SaveOutcome(p, upd) ==
    IF upd.mod = {} THEN "ok"
    ELSE IF ~Exists(p) THEN "gone"
    ELSE IF ~ProjectValid(ApplyUpdate(projects[p], upd)) THEN "invalid"
    ELSE "ok"

\* the HTTP status a handler answers with after its save
SaveCode(s, okCode, badCode) ==
    LET out == SaveOutcome(req[s].pid, req[s].upd)
    IN IF out = "ok" THEN okCode ELSE IF out = "invalid" THEN badCode ELSE 500

\* the second step of every handler that loads a Project, changes it and saves
SaveProject(s, okCode, badCode) ==
    /\ req[s].pc = "save"
    /\ ~ProjectLocked(s, req[s].pid)
    /\ LET r == req[s]
           out == SaveOutcome(r.pid, r.upd)
       IN projects' = IF out = "ok" /\ r.upd.mod # {}
                      THEN [projects EXCEPT ![r.pid] = ApplyUpdate(@, r.upd)]
                      ELSE projects
    /\ Respond(s, SaveCode(s, okCode, badCode))
    /\ UNCHANGED <<nextPid, orders>>

\* Date.now() / new Date(): later than every timestamp a stored or in-memory
\* Project carries
Max(S) == CHOOSE x \in S : \A y \in S : y <= x

Clock ==
    1 + Max({0} \cup {projects[p].soldAt : p \in DOMAIN projects}
                \cup {req[s].upd.vals.soldAt : s \in Slots})

-----------------------------------------------------------------------------
(* project.controller.js *)

\* what a client may put in metadata.status of the create body
ClientStatuses == {"absent", "approved", "archived"}

CreateBodies ==
    [title : BOOLEAN, status : ClientStatuses, isForSale : BOOLEAN, price : Prices]

\* createProject's document payload: the client's metadata is spread first and
\* status forced to 'pending'; the client's marketplace block is kept, with
\* soldTo/soldAt forced to null (isForSale defaults to false, schema line 191)
NewProjectPayload(data, u) ==
    [owner |-> u, status |-> "pending", rejectionReason |-> NoReason,
     isForSale |-> data.isForSale, soldTo |-> NoUser, soldAt |-> 0,
     price |-> data.price]

\* a create that stores the client's metadata.status as sent, unvalidated
CreateStored_clientStatus(data, u) ==
    Insert(nextPid, [NewProjectPayload(data, u) EXCEPT
                        !.status = IF data.status = "absent" THEN "pending"
                                   ELSE data.status])

\* ProjectModel.create(payload): the stored documents, or the collection as it
\* was when a validator rejects the payload
CreateStored(data, u) ==
    IF ProjectValid(NewProjectPayload(data, u))
    THEN Insert(nextPid, NewProjectPayload(data, u))
    ELSE projects

createProject(s, u, data) ==
    /\ Free(s)
    /\ nextPid <= MaxProjects
    /\ IF ~data.title
       THEN /\ Respond(s, 400)
            /\ UNCHANGED <<projects, nextPid>>
       ELSE /\ projects' = CreateStored(data, u)
            /\ IF projects' # projects
               THEN /\ nextPid' = nextPid + 1
                    /\ Respond(s, 201)
               ELSE /\ UNCHANGED nextPid
                    /\ Respond(s, 400)
    /\ UNCHANGED <<orders, bought, users>>

\* the statuses in which the owner may edit or submit
Editable == {"draft", "pending", "rejected"}

UpdateBodies == [setForSale : {"absent", "true", "false"}, price : Prices]

\* updateProject's checks on the loaded document: the HTTP status of the
\* refusal, 200 to go on
updateCheck(u, p) ==
    IF ~Exists(p) THEN 404
    ELSE IF u # projects[p].owner THEN 403
    ELSE IF projects[p].status \notin Editable THEN 400
    ELSE 200

\* an edit that leaves the review fields of a rejected project as they are
updateChange_keepsRejection(doc, body) ==
    [doc EXCEPT
       !.isForSale = IF body.setForSale = "absent" THEN @ ELSE body.setForSale = "true",
       !.price = body.price]

\* updateProject's changes to the loaded document
updateChange(doc, body) ==
    [doc EXCEPT
       !.isForSale = IF body.setForSale = "absent" THEN @ ELSE body.setForSale = "true",
       !.price = body.price,
       !.rejectionReason = IF doc.status = "rejected" THEN NoReason ELSE @,
       !.status = IF doc.status = "rejected" THEN "pending" ELSE @]

updateProject_find(s, u, p, body) ==
    /\ Free(s)
    /\ IF updateCheck(u, p) # 200
       THEN Respond(s, updateCheck(u, p))
       ELSE Continue(s, Saving("updateProject", u, p,
                     PendingUpdate(projects[p], updateChange(projects[p], body))))
    /\ UNCHANGED <<projects, nextPid, orders, bought, users>>

updateProject_save(s) ==
    /\ req[s].op = "updateProject"
    /\ SaveProject(s, 200, 400)
    /\ UNCHANGED <<bought, users>>

\* deleteProject: findById, the owner/admin check, findByIdAndDelete.  The
\* check reads only the immutable owner, so the two store operations are one step.
deleteProject(s, u, p) ==
    /\ Free(s)
    /\ IF ~Exists(p)
       THEN /\ Respond(s, 404)
            /\ UNCHANGED projects
       ELSE IF role(u) # "admin" /\ u # projects[p].owner
       THEN /\ Respond(s, 403)
            /\ UNCHANGED projects
       ELSE /\ ~ProjectLocked(s, p)
            /\ projects' = Remove(p)
            /\ Respond(s, 200)
    /\ UNCHANGED <<nextPid, orders, bought, users>>

submitCheck(u, p) ==
    IF ~Exists(p) THEN 404
    ELSE IF u # projects[p].owner THEN 403
    ELSE IF projects[p].status \notin Editable THEN 400
    ELSE 200

submitChange(doc) ==
    [doc EXCEPT !.status = "submitted", !.rejectionReason = NoReason]

submitProject_find(s, u, p) ==
    /\ Free(s)
    /\ IF submitCheck(u, p) # 200
       THEN Respond(s, submitCheck(u, p))
       ELSE Continue(s, Saving("submitProject", u, p,
                     PendingUpdate(projects[p], submitChange(projects[p]))))
    /\ UNCHANGED <<projects, nextPid, orders, bought, users>>

submitProject_save(s) ==
    /\ req[s].op = "submitProject"
    /\ SaveProject(s, 200, 500)
    /\ UNCHANGED <<bought, users>>

\* approveProject's guard on the loaded document
approveAllowed(doc) == doc.status = "submitted"

\* approveProject's checks without the route's restrictTo('admin')
approveCheck_anyRole(u, p) ==
    IF ~Exists(p) THEN 404
    ELSE IF ~approveAllowed(projects[p]) THEN 400
    ELSE 200

\* the route's restrictTo('admin'), then approveProject's checks
approveCheck(u, p) ==
    IF ~restrictTo({"admin"}, u) THEN 403
    ELSE IF ~Exists(p) THEN 404
    ELSE IF ~approveAllowed(projects[p]) THEN 400
    ELSE 200

approveChange(doc) ==
    [doc EXCEPT !.status = "approved", !.rejectionReason = NoReason]

approveProject_find(s, u, p) ==
    /\ Free(s)
    /\ IF approveCheck(u, p) # 200
       THEN Respond(s, approveCheck(u, p))
       ELSE Continue(s, Saving("approveProject", u, p,
                     PendingUpdate(projects[p], approveChange(projects[p]))))
    /\ UNCHANGED <<projects, nextPid, orders, bought, users>>

approveProject_save(s) ==
    /\ req[s].op = "approveProject"
    /\ SaveProject(s, 200, 500)
    /\ UNCHANGED <<bought, users>>

\* what a client may send as the rejection reason ("" stands for empty or blank)
ClientReasons == Reasons \cup {""}

rejectCheck(u, p, reason) ==
    IF ~restrictTo({"admin"}, u) THEN 403
    ELSE IF reason = "" THEN 400
    ELSE IF ~Exists(p) THEN 404
    ELSE IF projects[p].status # "submitted" THEN 400
    ELSE 200

rejectChange(doc, reason) ==
    [doc EXCEPT !.status = "rejected", !.rejectionReason = reason]

rejectProject_find(s, u, p, reason) ==
    /\ Free(s)
    /\ IF rejectCheck(u, p, reason) # 200
       THEN Respond(s, rejectCheck(u, p, reason))
       ELSE Continue(s, Saving("rejectProject", u, p,
                     PendingUpdate(projects[p], rejectChange(projects[p], reason))))
    /\ UNCHANGED <<projects, nextPid, orders, bought, users>>

rejectProject_save(s) ==
    /\ req[s].op = "rejectProject"
    /\ SaveProject(s, 200, 500)
    /\ UNCHANGED <<bought, users>>

\* GET /projects/:id and GET /projects run behind optionalProtect: a request
\* without a token, or with the token of a user that no longer exists, goes
\* on as a public one (req.user unset)
Anonymous == "anonymous"

Callers == users \cup {Anonymous}

\* the access condition of the list query, no filter given: whether the
\* documents getAllProjects returns to this caller include doc
getAllProjects(caller, doc) ==
    IF caller = Anonymous THEN doc.status = "approved"
    ELSE IF role(caller) # "admin"
         THEN doc.status = "approved" \/ doc.owner = caller
    ELSE TRUE

\* the owner path as populate('owner') leaves it: the User document, or null
\* when no User has that id any more
populate(doc) == IF doc.owner \in users THEN doc.owner ELSE NoUser

\* the response code of the single-item fetch.  isOwner is evaluated as
\* req.user && req.user.id === project.owner._id.toString(): with req.user
\* set and the owner populated as null, reading ._id throws, and the catch
\* block answers 500
getProjectById(caller, p) ==
    IF ~Exists(p) THEN 404
    ELSE LET doc == projects[p]
             isAdmin == caller # Anonymous /\ role(caller) = "admin"
             isApproved == doc.status = "approved"
         IN  IF caller # Anonymous /\ populate(doc) = NoUser THEN 500
             ELSE IF ~isApproved /\ ~(caller # Anonymous /\ caller = populate(doc))
                     /\ ~isAdmin
                  THEN 403
             ELSE 200

-----------------------------------------------------------------------------
(* user.controller.js *)

\* DELETE /users/:id: an admin deletes anyone, a user deletes themselves
\* after confirming; the User document goes, the Projects it owns stay
deleteUserCheck(u, target, confirm) ==
    IF target \notin users THEN 404
    ELSE IF role(u) # "admin" /\ u # target THEN 403
    ELSE IF role(u) # "admin" /\ ~confirm THEN 400
    ELSE 200

deleteUser(s, u, target, confirm) ==
    /\ Free(s)
    /\ u \in users
    /\ users' = IF deleteUserCheck(u, target, confirm) = 200
                THEN users \ {target}
                ELSE users
    /\ UNCHANGED <<projects, nextPid, orders, req, bought>>

-----------------------------------------------------------------------------
(* marketplace.controller.js *)

createListingCheck(u, p) ==
    IF ~Exists(p) THEN 404
    ELSE IF projects[p].owner # u THEN 403
    ELSE IF projects[p].status # "approved" THEN 400
    ELSE IF projects[p].isForSale THEN 400
    ELSE IF projects[p].soldTo # NoUser THEN 400
    ELSE 200

createListing_find(s, u, p) ==
    /\ Free(s)
    /\ IF createListingCheck(u, p) # 200
       THEN Respond(s, createListingCheck(u, p))
       ELSE Continue(s, Saving("createListing", u, p,
                     PendingUpdate(projects[p], [projects[p] EXCEPT !.isForSale = TRUE])))
    /\ UNCHANGED <<projects, nextPid, orders, bought, users>>

createListing_save(s) ==
    /\ req[s].op = "createListing"
    /\ SaveProject(s, 201, 500)
    /\ UNCHANGED <<bought, users>>

updateListingCheck(u, p) ==
    IF ~Exists(p) THEN 404
    ELSE IF projects[p].owner # u THEN 403
    ELSE IF ~projects[p].isForSale THEN 400
    ELSE IF projects[p].soldTo # NoUser THEN 400
    ELSE 200

updateListing_find(s, u, p, price) ==
    /\ Free(s)
    /\ IF updateListingCheck(u, p) # 200
       THEN Respond(s, updateListingCheck(u, p))
       ELSE Continue(s, Saving("updateListing", u, p,
                     PendingUpdate(projects[p], [projects[p] EXCEPT !.price = price])))
    /\ UNCHANGED <<projects, nextPid, orders, bought, users>>

updateListing_save(s) ==
    /\ req[s].op = "updateListing"
    /\ SaveProject(s, 200, 500)
    /\ UNCHANGED <<bought, users>>

deleteListingCheck(u, p) ==
    IF ~Exists(p) THEN 404
    ELSE IF projects[p].owner # u /\ role(u) # "admin" THEN 403
    ELSE 200

deleteListing_find(s, u, p) ==
    /\ Free(s)
    /\ IF deleteListingCheck(u, p) # 200
       THEN Respond(s, deleteListingCheck(u, p))
       ELSE Continue(s, Saving("deleteListing", u, p,
                     PendingUpdate(projects[p], [projects[p] EXCEPT !.isForSale = FALSE])))
    /\ UNCHANGED <<projects, nextPid, orders, bought, users>>

deleteListing_save(s) ==
    /\ req[s].op = "deleteListing"
    /\ SaveProject(s, 200, 500)
    /\ UNCHANGED <<bought, users>>

\* buyProject's availability check on the loaded document
buyAvailable(doc) == doc.isForSale /\ doc.soldTo = NoUser

\* buyProject's checks without the owner check
buyCheck_ownerToo(u, p) ==
    IF ~Exists(p) THEN 404
    ELSE IF ~buyAvailable(projects[p]) THEN 400
    ELSE 200

buyCheck(u, p) ==
    IF ~Exists(p) THEN 404
    ELSE IF projects[p].owner = u THEN 400
    ELSE IF ~buyAvailable(projects[p]) THEN 400
    ELSE 200

\* mark as sold: buyProject's (and processPayment's) changes to the document
markSold(doc, u, t) ==
    [doc EXCEPT !.soldTo = u, !.soldAt = t, !.isForSale = FALSE]

buyProject_find(s, u, p) ==
    /\ Free(s)
    /\ IF buyCheck(u, p) # 200
       THEN Respond(s, buyCheck(u, p))
       ELSE /\ Clock <= MaxSales
            /\ Continue(s, Saving("buyProject", u, p,
                        PendingUpdate(projects[p], markSold(projects[p], u, Clock))))
    /\ UNCHANGED <<projects, nextPid, orders, bought, users>>

buyProject_save(s) ==
    /\ req[s].op = "buyProject"
    /\ SaveProject(s, 200, 500)
    /\ bought' = IF SaveCode(s, 200, 500) = 200
                 THEN bought \cup {<<req[s].caller, req[s].pid>>}
                 ELSE bought
    /\ UNCHANGED users

-----------------------------------------------------------------------------
(* payment.controller.js and payment.service.js *)

\* what a client may put in an amount field of the createOrder body (0: none)
ClientAmounts == {0, 1}

\* the createOrder bodies: projectId and a client-supplied amount
OrderBodies == [projectId : Pids, amount : ClientAmounts]

\* totalAmount of a new Order: project.price, whatever the body carries
OrderAmount(doc, body) == doc.price

NewOrder(u, p, amount) ==
    [user |-> u, project |-> p, totalAmount |-> amount, status |-> "pending",
     transactionId |-> NoTxn]

\* the unique index on Order.transactionId: another Order holds `t`
TxnTaken(o, t) == \E x \in DOMAIN orders \ {o} : orders[x].transactionId = t

createOrderCheck(u, p) ==
    IF ~Exists(p) THEN 404
    ELSE IF projects[p].owner = u THEN 400
    ELSE IF ~projects[p].isForSale \/ projects[p].soldTo # NoUser THEN 400
    ELSE 200

\* the caller's Orders for the project that are pending or processing
OpenOrders(u, p) ==
    {o \in DOMAIN orders : /\ orders[o].user = u
                           /\ orders[o].project = p
                           /\ orders[o].status \in {"pending", "processing"}}

\* the createOrder calls that may still create an Order
Creating == {t \in Slots : req[t].op = "createOrder"}

createOrder_findProject(s, u, body) ==
    /\ Free(s)
    /\ IF createOrderCheck(u, body.projectId) # 200
       THEN Respond(s, createOrderCheck(u, body.projectId))
       ELSE /\ Len(orders) + Cardinality(Creating) < MaxOrders
            /\ Continue(s, [Idle EXCEPT !.op = "createOrder", !.pc = "findOrder",
                                        !.caller = u, !.pid = body.projectId,
                                        !.amount = OrderAmount(projects[body.projectId], body)])
    /\ UNCHANGED <<projects, nextPid, orders, bought, users>>

createOrder_findOrder(s) ==
    /\ req[s].op = "createOrder"
    /\ req[s].pc = "findOrder"
    /\ IF OpenOrders(req[s].caller, req[s].pid) # {}
       THEN Respond(s, 200)
       ELSE Continue(s, [req[s] EXCEPT !.pc = "create"])
    /\ UNCHANGED <<projects, nextPid, orders, bought, users>>

createOrder_create(s) ==
    /\ req[s].op = "createOrder"
    /\ req[s].pc = "create"
    /\ orders' = Append(orders, NewOrder(req[s].caller, req[s].pid, req[s].amount))
    /\ Respond(s, 201)
    /\ UNCHANGED <<projects, nextPid, bought, users>>

\* processPayment's checks without the test of the Order's buyer
payCheck_anyCaller(u, o) ==
    IF o \notin DOMAIN orders THEN 404
    ELSE IF orders[o].status = "paid" THEN 400
    ELSE 200

\* processPayment's checks on the loaded Order
payCheck(u, o) ==
    IF o \notin DOMAIN orders THEN 404
    ELSE IF orders[o].user # u THEN 403
    ELSE IF orders[o].status = "paid" THEN 400
    ELSE 200

\* the processPayment calls that may still stamp a sale time
Paying ==
    {t \in Slots : /\ req[t].op = "processPayment"
                   /\ req[t].pc \in {"lock", "charge", "txOrder", "txProject"}}

\* findById(orderId).populate('project'), the checks, order.status = 'processing'
processPayment_find(s, u, o) ==
    /\ Free(s)
    /\ IF payCheck(u, o) # 200
       THEN Respond(s, payCheck(u, o))
       ELSE /\ Clock + Cardinality(Paying) <= MaxSales
            /\ Continue(s, [Idle EXCEPT !.op = "processPayment", !.pc = "lock",
                                     !.caller = u, !.oid = o,
                                     !.pid = orders[o].project,
                                     !.lock = orders[o].status # "processing",
                                     !.popd = Exists(orders[o].project)])
    /\ UNCHANGED <<projects, nextPid, orders, bought, users>>

\* order.save(): status is written when the assignment modified it
processPayment_lock(s) ==
    /\ req[s].op = "processPayment"
    /\ req[s].pc = "lock"
    /\ req[s].lock => ~OrderLocked(s, req[s].oid)
    /\ orders' = IF req[s].lock
                 THEN [orders EXCEPT ![req[s].oid].status = "processing"]
                 ELSE orders
    /\ Continue(s, [req[s] EXCEPT !.pc = "charge", !.lock = FALSE])
    /\ UNCHANGED <<projects, nextPid, bought, users>>

\* what the gateway may answer to the authorization request
GatewayReplies == {"APPROVED", "DECLINED", "network error", "no response"}

\* the request to the gateway settles: axios.post is given no timeout, so
\* without a response the await never settles
Answered(reply) == reply # "no response"

\* the transaction id the gateway issues for the sale of Order o.  The
\* gateway's ids are fresh, so assigning one always modifies transactionId.
GatewayTxn(o) == IF o = 1 THEN "sale-1" ELSE "sale-2"

\* PaymentService.charge: returns on APPROVED, throws otherwise
charge(reply) == reply = "APPROVED"

\* the `raw` of the error charge throws: error.response.data when the gateway
\* answered, else the HTTP client's own error object (request, sockets)
RawIsClientError(reply) == reply = "network error"

\* what the try block of PaymentService.charge throws: nothing on APPROVED,
\* its own { type: 'DECLINED' } object on any other response code, the HTTP
\* client's error when the request fails
ThrownInTry(reply) ==
    IF reply = "APPROVED" THEN "none"
    ELSE IF reply = "DECLINED" THEN "DECLINED"
    ELSE "AxiosError"

\* the type of the error charge reports: the throw of the decline is inside
\* the try block, so the catch block receives it like any other error and
\* rethrows everything with type GATEWAY_ERROR
ErrorType(reply) ==
    IF ThrownInTry(reply) = "none" THEN "none" ELSE "GATEWAY_ERROR"

processPayment_charge(s, reply) ==
    /\ req[s].op = "processPayment"
    /\ req[s].pc = "charge"
    /\ IF ~Answered(reply)
       THEN \* the handler never runs again; it holds nothing, its slot is given back
            req' = [req EXCEPT ![s] = Idle]
       ELSE Continue(s, IF charge(reply)
                        THEN [req[s] EXCEPT !.pc = "txOrder", !.txn = GatewayTxn(req[s].oid)]
                        ELSE [req[s] EXCEPT !.pc = "fail",
                                            !.rawErr = RawIsClientError(reply),
                                            !.errType = ErrorType(reply)])
    /\ UNCHANGED <<projects, nextPid, orders, bought, users>>

\* the Order as the transaction's order.save wrote it
PaidOrder(ord, r) ==
    [ord EXCEPT !.status = "paid",
                !.transactionId = r.txn]

\* order.save() without the session: the write reaches the store at once
processPayment_txOrder_noSession(s) ==
    /\ req[s].op = "processPayment"
    /\ req[s].pc = "txOrder"
    /\ orders' = [orders EXCEPT ![req[s].oid] = PaidOrder(@, req[s])]
    /\ Continue(s, [req[s] EXCEPT !.pc = "txProject", !.sess = TRUE])
    /\ UNCHANGED <<projects, nextPid, bought, users>>

\* inside the transaction: order.status = 'paid', order.transactionId = ...,
\* order.save({ session }).  The write stays in the session until the commit.
processPayment_txOrder(s) ==
    /\ req[s].op = "processPayment"
    /\ req[s].pc = "txOrder"
    /\ Continue(s,
          IF \/ OrderLocked(s, req[s].oid)
             \/ TxnTaken(req[s].oid, req[s].txn)
          THEN [req[s] EXCEPT !.pc = "fail", !.sess = TRUE,
                              !.dirty = TRUE]
          ELSE [req[s] EXCEPT !.pc = "txProject", !.sess = TRUE])
    /\ UNCHANGED <<projects, nextPid, orders, bought, users>>

\* inside the transaction: findById(order.project._id), mark as sold,
\* project.save({ session }).  order.project is null when the populate found
\* no Project, and reading ._id of it throws.
processPayment_txProject(s) ==
    /\ req[s].op = "processPayment"
    /\ req[s].pc = "txProject"
    /\ IF ~req[s].popd \/ ProjectLocked(s, req[s].pid)
       THEN Continue(s, [req[s] EXCEPT !.pc = "fail"])
       ELSE IF ~Exists(req[s].pid)
       THEN Continue(s, [req[s] EXCEPT !.pc = "commit"])
       ELSE /\ Clock <= MaxSales
            /\ Continue(s, [req[s] EXCEPT !.pc = "commit",
                 !.upd = PendingUpdate(projects[req[s].pid],
                            markSold(projects[req[s].pid], req[s].caller, Clock))])
    /\ UNCHANGED <<projects, nextPid, orders, bought, users>>

\* a commit that applies the Order write and drops the Project write
CommitWrites_orderOnly(r) ==
    [o |-> [orders EXCEPT ![r.oid] = PaidOrder(@, r)],
     p |-> projects]

\* session.commitTransaction(): the writes of the session are applied together
CommitWrites(r) ==
    [o |-> [orders EXCEPT ![r.oid] = PaidOrder(@, r)],
     p |-> IF r.upd.mod # {}
           THEN [projects EXCEPT ![r.pid] = ApplyUpdate(@, r.upd)]
           ELSE projects]

processPayment_commit(s) ==
    /\ req[s].op = "processPayment"
    /\ req[s].pc = "commit"
    /\ orders' = CommitWrites(req[s]).o
    /\ projects' = CommitWrites(req[s]).p
    /\ Respond(s, 200)
    /\ UNCHANGED <<nextPid, bought, users>>

\* a fault inside the transaction (a store error at either write or at the
\* commit): session.abortTransaction() drops the writes of the session, and
\* the error is rethrown into the failure flow
processPayment_abort(s) ==
    /\ req[s].op = "processPayment"
    /\ req[s].pc \in {"txOrder", "txProject", "commit"}
    /\ Continue(s, [req[s] EXCEPT !.pc = "fail", !.sess = TRUE, !.upd = NoUpdate,
                                  !.dirty = (req[s].pc = "txOrder")])
    /\ UNCHANGED <<projects, nextPid, orders, bought, users>>

\* the failure flow: order.status = 'failed', order.paymentGatewayLogs =
\* gatewayError.raw || gatewayError, order.save().  After a transaction the
\* document is bound to the ended session, and after a network error the logs
\* hold the HTTP client's error object, which the store driver may be unable
\* to serialize: the save either goes through or throws (`thrown`), which
\* answers 500.
processPayment_fail(s, thrown) ==
    /\ req[s].op = "processPayment"
    /\ req[s].pc = "fail"
    /\ thrown => (req[s].sess \/ req[s].rawErr)
    /\ thrown \/ ~OrderLocked(s, req[s].oid)
    /\ IF thrown \/ (req[s].dirty /\ TxnTaken(req[s].oid, req[s].txn))
       THEN /\ UNCHANGED orders
            /\ Respond(s, 500)
       ELSE /\ orders' = [orders EXCEPT ![req[s].oid] =
                            [@ EXCEPT !.status = "failed",
                                      !.transactionId = IF req[s].dirty THEN req[s].txn ELSE @]]
            /\ Respond(s, 400)
    /\ UNCHANGED <<projects, nextPid, bought, users>>

\* the bodies the public webhook endpoint may receive
Notifications == [deposited : BOOLEAN, order : Oids, sale : TxnIds]

\* a webhook that applies a deposited settlement to any Order it finds
webhookApplies_unguarded(n) ==
    /\ n.deposited
    /\ n.order \in DOMAIN orders

\* the Order a notification is applied to: a deposited settlement whose Order
\* exists and is not paid
webhookApplies(n) ==
    /\ n.deposited
    /\ n.order \in DOMAIN orders
    /\ orders[n.order].status # "paid"

handleWebhook_find(s, n) ==
    /\ Free(s)
    /\ IF webhookApplies(n)
       THEN Continue(s, [Idle EXCEPT !.op = "handleWebhook", !.pc = "save",
                                     !.oid = n.order, !.txn = n.sale,
                                     !.dirty = (orders[n.order].transactionId # n.sale)])
       ELSE Respond(s, 200)
    /\ UNCHANGED <<projects, nextPid, orders, bought, users>>

\* order.save() of the webhook: status = 'paid' and the modified transactionId
handleWebhook_save(s) ==
    /\ req[s].op = "handleWebhook"
    /\ req[s].pc = "save"
    /\ ~OrderLocked(s, req[s].oid)
    /\ IF req[s].dirty /\ TxnTaken(req[s].oid, req[s].txn)
       THEN /\ UNCHANGED orders
            /\ Respond(s, 500)
       ELSE /\ orders' = [orders EXCEPT ![req[s].oid] =
                            [@ EXCEPT !.status = "paid",
                                      !.transactionId = IF req[s].dirty THEN req[s].txn ELSE @]]
            /\ Respond(s, 200)
    /\ UNCHANGED <<projects, nextPid, bought, users>>

-----------------------------------------------------------------------------
Lifecycle ==
    \E s \in Slots :
       \/ \E u \in Sellers, data \in CreateBodies : createProject(s, u, data)
       \/ \E u \in {"owner", "alice"}, p \in Pids, body \in UpdateBodies :
             updateProject_find(s, u, p, body)
       \/ updateProject_save(s)
       \/ \E u \in {"owner", "alice", "admin"}, p \in Pids : deleteProject(s, u, p)
       \/ \E u \in {"owner", "alice"}, p \in Pids : submitProject_find(s, u, p)
       \/ submitProject_save(s)
       \/ \E u \in {"admin", "alice"}, p \in Pids : approveProject_find(s, u, p)
       \/ approveProject_save(s)
       \/ \E u \in {"admin", "alice"}, p \in Pids, r \in ClientReasons :
             rejectProject_find(s, u, p, r)
       \/ rejectProject_save(s)

Marketplace ==
    \E s \in Slots :
       \/ \E u \in {"owner", "alice"}, p \in Pids : createListing_find(s, u, p)
       \/ createListing_save(s)
       \/ \E u \in {"owner", "alice"}, p \in Pids, pr \in Prices :
             updateListing_find(s, u, p, pr)
       \/ updateListing_save(s)
       \/ \E u \in {"owner", "alice", "admin"}, p \in Pids : deleteListing_find(s, u, p)
       \/ deleteListing_save(s)
       \/ \E u \in Users, p \in Pids : buyProject_find(s, u, p)
       \/ buyProject_save(s)

Payment ==
    \E s \in Slots :
       \/ \E u \in {"owner", "alice", "bob"}, body \in OrderBodies :
             createOrder_findProject(s, u, body)
       \/ createOrder_findOrder(s)
       \/ createOrder_create(s)
       \/ \E u \in Buyers, o \in Oids : processPayment_find(s, u, o)
       \/ processPayment_lock(s)
       \/ \E reply \in GatewayReplies : processPayment_charge(s, reply)
       \/ processPayment_txOrder(s)
       \/ processPayment_txProject(s)
       \/ processPayment_commit(s)
       \/ processPayment_abort(s)
       \/ \E thrown \in BOOLEAN : processPayment_fail(s, thrown)
       \/ \E n \in Notifications : handleWebhook_find(s, n)
       \/ handleWebhook_save(s)

\* the whole program
Next == Lifecycle \/ Marketplace \/ Payment

Spec == Init /\ [][Next]_vars

\* the project lifecycle and the marketplace, without the payment flow
NextListing == Lifecycle \/ Marketplace

SpecListing == Init /\ [][NextListing]_vars

\* the create bodies of the payment flow: one price
CatalogueBodies == {data \in CreateBodies : data.price = 100}

\* the sellers' side of the payment flow: Projects are created (on sale or
\* not, as the create body says) and deleted
Catalogue ==
    \E s \in Slots :
       \/ \E u \in Sellers, data \in CatalogueBodies : createProject(s, u, data)
       \/ \E u \in Sellers, p \in Pids : deleteProject(s, u, p)

\* the payment flow
NextPayment == Catalogue \/ Payment

SpecPayment == Init /\ [][NextPayment]_vars

\* order creation while the owner re-prices the listing
Ordering ==
    \E s \in Slots :
       \/ \E u \in Sellers, data \in CreateBodies : createProject(s, u, data)
       \/ \E u \in Sellers, p \in Pids, pr \in Prices : updateListing_find(s, u, p, pr)
       \/ updateListing_save(s)
       \/ \E u \in {"owner", "alice", "bob"}, body \in OrderBodies :
             createOrder_findProject(s, u, body)
       \/ createOrder_findOrder(s)
       \/ createOrder_create(s)

SpecOrdering == Init /\ [][Ordering]_vars

\* the review life cycle while accounts are deleted; only users that still
\* exist pass the authentication middleware
Visibility ==
    \E s \in Slots :
       \/ \E u \in Sellers \cap users, data \in CreateBodies : createProject(s, u, data)
       \/ \E u \in Sellers \cap users, p \in Pids : submitProject_find(s, u, p)
       \/ submitProject_save(s)
       \/ \E u \in {"admin"} \cap users, p \in Pids : approveProject_find(s, u, p)
       \/ approveProject_save(s)
       \/ \E u \in users, target \in Users, confirm \in BOOLEAN :
             deleteUser(s, u, target, confirm)

SpecVisibility == Init /\ [][Visibility]_vars

\* no request is in flight: the next request does not overlap another one
Quiet == \A t \in Slots : req[t] = Idle

\* what the owner sends when a rejection asks for more detail: a new price
RevisedBodies == {body \in UpdateBodies : body.price = 200}

\* the review round trip, one review request after the other: the owner
\* creates (at the catalogue price) and submits, an admin approves or rejects,
\* and the owner edits a project only after it was rejected; listing and
\* purchase requests arrive at any time
Resubmission ==
    \E s \in Slots :
       \/ \E data \in CatalogueBodies : Quiet /\ createProject(s, "owner", data)
       \/ \E p \in Pids : Quiet /\ submitProject_find(s, "owner", p)
       \/ submitProject_save(s)
       \/ \E p \in Pids, r \in ClientReasons :
             Quiet /\ rejectProject_find(s, "admin", p, r)
       \/ rejectProject_save(s)
       \/ \E p \in Pids, body \in RevisedBodies :
             /\ Quiet
             /\ Exists(p)
             /\ projects[p].status = "rejected"
             /\ updateProject_find(s, "owner", p, body)
       \/ updateProject_save(s)
       \/ \E p \in Pids : Quiet /\ approveProject_find(s, "admin", p)
       \/ approveProject_save(s)
       \/ \E p \in Pids : createListing_find(s, "owner", p)
       \/ createListing_save(s)
       \/ \E p \in Pids : deleteListing_find(s, "owner", p)
       \/ deleteListing_save(s)
       \/ \E u \in Buyers, p \in Pids : buyProject_find(s, u, p)
       \/ buyProject_save(s)

SpecResubmission == Init /\ [][Resubmission]_vars

\* both ways to purchase, open to every user, the owner included
Purchase ==
    \E s \in Slots :
       \/ \E u \in Sellers, data \in CatalogueBodies : createProject(s, u, data)
       \/ \E u \in {"owner", "alice"}, p \in Pids : buyProject_find(s, u, p)
       \/ buyProject_save(s)
       \/ \E u \in {"owner", "alice"}, body \in OrderBodies :
             createOrder_findProject(s, u, body)
       \/ createOrder_findOrder(s)
       \/ createOrder_create(s)
       \/ \E u \in {"owner", "alice"}, o \in Oids : processPayment_find(s, u, o)
       \/ processPayment_lock(s)
       \/ \E reply \in GatewayReplies : processPayment_charge(s, reply)
       \/ processPayment_txOrder(s)
       \/ processPayment_txProject(s)
       \/ processPayment_commit(s)
       \/ processPayment_abort(s)
       \/ \E thrown \in BOOLEAN : processPayment_fail(s, thrown)

SpecPurchase == Init /\ [][Purchase]_vars

\* orders and their payment, every started handler running on
Settlement ==
    \E s \in Slots :
       \/ \E u \in Sellers, data \in CatalogueBodies : createProject(s, u, data)
       \/ \E u \in Buyers, body \in OrderBodies : createOrder_findProject(s, u, body)
       \/ createOrder_findOrder(s)
       \/ createOrder_create(s)
       \/ \E u \in Buyers, o \in Oids : processPayment_find(s, u, o)
       \/ processPayment_lock(s)
       \/ \E reply \in GatewayReplies : processPayment_charge(s, reply)
       \/ processPayment_txOrder(s)
       \/ processPayment_txProject(s)
       \/ processPayment_commit(s)
       \/ processPayment_abort(s)
       \/ \E thrown \in BOOLEAN : processPayment_fail(s, thrown)

\* the event loop resumes a handler whose awaited operation has settled
SpecSettlement ==
    /\ Init
    /\ [][Settlement]_vars
    /\ \A s \in Slots :
          /\ WF_vars(processPayment_lock(s))
          /\ WF_vars(\E reply \in GatewayReplies : processPayment_charge(s, reply))
          /\ WF_vars(processPayment_txOrder(s))
          /\ WF_vars(processPayment_txProject(s))
          /\ WF_vars(processPayment_commit(s))
          /\ WF_vars(\E thrown \in BOOLEAN : processPayment_fail(s, thrown))

-----------------------------------------------------------------------------
(* Claims *)

\* C1: of the buyers who call buyProject concurrently on the same for-sale,
\* unsold Project, one is answered with success and no second one is.
C1_OneBuyerSucceeds ==
    \A p \in Pids : Cardinality({b \in bought : b[2] = p}) <= 1

\* C2: in processPayment the write that marks the Order paid and the write
\* that marks the Project sold reach the store together or not at all: a step
\* of the transaction either changes no stored document, or leaves the Order
\* paid and the Project (when it exists) sold to the payer; and the failure
\* flow that follows a fault neither marks the Order paid nor touches the
\* Project.
C2_PaymentWritesAtomic ==
    [][\A s \in Slots :
         (req[s].op = "processPayment" /\ req'[s] # req[s]) =>
            LET r == req[s] IN
            /\ r.pc \in {"txOrder", "txProject", "commit"} =>
                 \/ orders' = orders /\ projects' = projects
                 \/ /\ orders'[r.oid].status = "paid"
                    /\ Exists(r.pid) => /\ r.pid \in DOMAIN projects'
                                        /\ projects'[r.pid].soldTo = r.caller
                                        /\ ~projects'[r.pid].isForSale
            /\ r.pc = "fail" =>
                 /\ projects' = projects
                 /\ orders'[r.oid].status = "paid" => orders[r.oid].status = "paid"
      ]_vars

\* C2 witness: a transaction was aborted after its Order write: the request is
\* in the failure flow, the Order is not paid and the Project is unsold
C2_AbortedAfterOrderWrite ==
    \E s \in Slots :
        /\ req[s].op = "processPayment"
        /\ req[s].pc = "fail"
        /\ req[s].sess
        /\ ~req[s].dirty
        /\ req[s].txn # NoTxn
        /\ orders[req[s].oid].status = "processing"
        /\ Exists(req[s].pid)
        /\ projects[req[s].pid].soldTo = NoUser

\* C3: the Project of every paid Order is sold to that Order's buyer and is
\* not for sale, whichever path marked the Order paid.
C3_PaidOrderProjectSold ==
    \A o \in DOMAIN orders :
        (orders[o].status = "paid" /\ Exists(orders[o].project)) =>
            /\ projects[orders[o].project].soldTo = orders[o].user
            /\ ~projects[orders[o].project].isForSale

\* C4: a Project that is for sale is approved and unsold.
C4_ForSaleIsApprovedUnsold ==
    \A p \in DOMAIN projects :
        projects[p].isForSale =>
            /\ projects[p].status = "approved"
            /\ projects[p].soldTo = NoUser

\* C5: a sold Project is not for sale and is approved.
C5_SoldIsApprovedNotForSale ==
    \A p \in DOMAIN projects :
        projects[p].soldTo # NoUser =>
            /\ ~projects[p].isForSale
            /\ projects[p].status = "approved"

\* C6: of the Orders two different buyers hold for the same Project, at most
\* one is paid.
C6_OnePaidOrderPerProject ==
    \A o1, o2 \in DOMAIN orders :
        (/\ o1 # o2
         /\ orders[o1].project = orders[o2].project
         /\ orders[o1].user # orders[o2].user)
        => ~(orders[o1].status = "paid" /\ orders[o2].status = "paid")

\* C7: once a Project's soldTo is set, no step changes its soldTo, soldAt or
\* isForSale.
C7_SaleIsFinal ==
    [][\A p \in DOMAIN projects :
         (projects[p].soldTo # NoUser /\ p \in DOMAIN projects') =>
            /\ projects'[p].soldTo = projects[p].soldTo
            /\ projects'[p].soldAt = projects[p].soldAt
            /\ projects'[p].isForSale = projects[p].isForSale
      ]_vars

\* C8: a step makes a Project's stored status approved only when the stored
\* status is submitted.
C8_ApprovedOnlyFromSubmitted ==
    [][\A p \in DOMAIN projects :
         (/\ p \in DOMAIN projects'
          /\ projects'[p].status = "approved"
          /\ projects[p].status # "approved")
         => projects[p].status = "submitted"
      ]_vars

\* C9: the status of every stored Project is one of draft, pending, submitted,
\* approved, rejected, whatever metadata.status the create body carried.
C9_StatusInDomain ==
    \A p \in DOMAIN projects :
        projects[p].status \in {"draft", "pending", "submitted", "approved", "rejected"}

\* C9 witness: a Project has been created and stored with the forced status
C9_CreatedPending ==
    /\ nextPid > 1
    /\ \E p \in DOMAIN projects :
          projects[p].status = "pending" /\ projects[p].rejectionReason = NoReason

\* C10: handleWebhook is idempotent: a notification that arrives for an Order
\* already paid is acknowledged without scheduling a write and changes no
\* stored document, and the write of a notification whose Order has meanwhile
\* been paid under the same sale id changes no stored document.
C10_WebhookIdempotent ==
    [][\A s \in Slots :
         /\ \A n \in Notifications :
               (/\ handleWebhook_find(s, n)
                /\ n.order \in DOMAIN orders
                /\ orders[n.order].status = "paid")
               => (req'[s] = Idle /\ orders' = orders /\ projects' = projects)
         /\ (/\ handleWebhook_save(s)
             /\ orders[req[s].oid].status = "paid"
             /\ orders[req[s].oid].transactionId = req[s].txn)
            => (orders' = orders /\ projects' = projects)
      ]_vars

\* C10 witness: a second delivery of a notification is about to write to an
\* Order that the first delivery has already marked paid with the same sale id
C10_DuplicateDelivery ==
    \E s \in Slots :
        /\ req[s].op = "handleWebhook"
        /\ req[s].pc = "save"
        /\ orders[req[s].oid].status = "paid"
        /\ orders[req[s].oid].transactionId = req[s].txn

\* C11: an Order that createOrder creates carries the price the Project
\* stores at the moment of the creation, whatever amount the body carried.
C11_AmountIsStoredPrice ==
    [][\A s \in Slots :
         (createOrder_create(s) /\ Exists(req[s].pid)) =>
            orders'[Len(orders')].totalAmount = projects[req[s].pid].price
      ]_vars

\* C12: an Order that processPayment has moved to processing eventually
\* leaves processing, to paid or to failed, whatever the gateway does.
C12_ProcessingLeaves ==
    \A o \in Oids :
        (o \in DOMAIN orders /\ orders[o].status = "processing")
           ~> (o \in DOMAIN orders /\ orders[o].status \in {"paid", "failed"})

\* C13: when the gateway declines or errors, the failure flow of
\* processPayment stores status failed on the Order, and no step of the
\* request changes the Project.
C13_DeclineFailsOrderKeepsProject ==
    [][\A s \in Slots :
         (/\ req[s].op = "processPayment"
          /\ req[s].pc \in {"charge", "fail"}
          /\ ~req[s].sess
          /\ req'[s] # req[s])
         => /\ projects' = projects
            /\ req[s].pc = "fail" => orders'[req[s].oid].status = "failed"
      ]_vars

\* C14: when the payment of an Order whose charge the gateway approved
\* completes, the Order is paid and carries the gateway's transaction id, and
\* the Project is sold to the payer, has a sale time and is not for sale.
C14_ApprovedPaymentSells ==
    [][\A s \in Slots :
         processPayment_commit(s) =>
            LET r == req[s] IN
            /\ orders'[r.oid].status = "paid"
            /\ orders'[r.oid].transactionId = GatewayTxn(r.oid)
            /\ Exists(r.pid) =>
                  /\ r.pid \in DOMAIN projects'
                  /\ projects'[r.pid].soldTo = r.caller
                  /\ projects'[r.pid].soldAt > 0
                  /\ ~projects'[r.pid].isForSale
      ]_vars

\* C14 witness: an Order is paid under the gateway's transaction id and its
\* Project is sold to the Order's buyer
C14_PaidAndSold ==
    \E o \in DOMAIN orders :
        /\ orders[o].status = "paid"
        /\ orders[o].transactionId = GatewayTxn(o)
        /\ Exists(orders[o].project)
        /\ projects[orders[o].project].soldTo = orders[o].user
        /\ projects[orders[o].project].soldAt > 0
        /\ ~projects[orders[o].project].isForSale

\* C15: no Project is sold to its owner, and buyProject and createOrder
\* called by the owner of a Project are refused (400).
C15_NeverSoldToOwner ==
    \A p \in DOMAIN projects :
        /\ projects[p].soldTo # projects[p].owner
        /\ buyCheck(projects[p].owner, p) = 400
        /\ createOrderCheck(projects[p].owner, p) = 400

\* C15 witness: a Project has been sold, to a user who is not its owner
C15_SoldToBuyer ==
    \E p \in DOMAIN projects : projects[p].soldTo \in Buyers

\* C16: for every caller (unauthenticated, authenticated non-admin, admin)
\* and every stored project, the single-item fetch answers with the project
\* exactly when the unfiltered list returned to that caller includes it
C16_FetchAgreesWithList ==
    \A caller \in Callers, p \in DOMAIN projects :
        (getProjectById(caller, p) = 200) <=> getAllProjects(caller, projects[p])

\* C17: a createListing call answers with success, setting isForSale = true
\* and nothing else, only when the stored project belongs to the caller, is
\* approved, is not listed and is not sold; otherwise it answers with a
\* failure and the project is left as it was
C17_ListingOnlyWhenEligible ==
    [][\A s \in Slots :
         (req[s].op = "createListing" /\ req'[s] = Idle) =>
            LET p == req[s].pid
                eligible == /\ Exists(p)
                            /\ projects[p].owner = req[s].caller
                            /\ projects[p].status = "approved"
                            /\ ~projects[p].isForSale
                            /\ projects[p].soldTo = NoUser
            IN  IF SaveCode(s, 201, 500) = 201
                THEN /\ eligible
                     /\ projects' = [projects EXCEPT ![p].isForSale = TRUE]
                ELSE projects' = projects
      ]_vars

\* C18: in every reachable state a buyer has at most one Order in status
\* pending or processing for a given project
C18_OneOpenOrderPerPair ==
    \A u \in Users, p \in Pids : Cardinality(OpenOrders(u, p)) <= 1

\* C19: an updateProject or submitProject call that completes while the
\* stored status of its project is submitted or approved answers with a
\* failure and leaves every field of the project unchanged
C19_OwnerActionsOnlyWhenEditable ==
    [][\A s \in Slots :
         (/\ req[s].op \in {"updateProject", "submitProject"}
          /\ req'[s] = Idle
          /\ Exists(req[s].pid)
          /\ projects[req[s].pid].status \in {"submitted", "approved"})
         => /\ SaveCode(s, 200, 400) # 200
            /\ projects' = projects
      ]_vars

\* C20: a rejectProject call answers with success only when the stored
\* status of its project is submitted and the reason is not blank, and then
\* the project gets status rejected and that reason and nothing else
\* changes; otherwise it answers with a failure and the project is left as
\* it was
C20_RejectOnlySubmitted ==
    [][\A s \in Slots :
         (req[s].op = "rejectProject" /\ req'[s] = Idle) =>
            LET p == req[s].pid
                reason == req[s].upd.vals.rejectionReason
            IN  IF SaveCode(s, 200, 500) = 200
                THEN /\ Exists(p)
                     /\ projects[p].status = "submitted"
                     /\ reason \in Reasons
                     /\ projects' = [projects EXCEPT ![p] = rejectChange(@, reason)]
                ELSE projects' = projects
      ]_vars

\* C21: in every reachable state a Project carries a rejection reason only
\* while its status is rejected
C21_ReasonOnlyWhileRejected ==
    \A p \in DOMAIN projects :
        projects[p].rejectionReason # NoReason => projects[p].status = "rejected"

\* C22: approve and reject by a caller who is not an admin, and edit and
\* submit by a caller who is not the project's owner, are answered 403, and
\* no such call gets past its check to the write: every handler about to
\* save an edit or a submission runs for the owner, every handler about to
\* save an approval or a rejection runs for an admin
C22_RoleGated ==
    /\ \A u \in Users, p \in DOMAIN projects :
          /\ role(u) # "admin" =>
                /\ approveCheck(u, p) = 403
                /\ \A r \in ClientReasons : rejectCheck(u, p, r) = 403
          /\ u # projects[p].owner =>
                /\ updateCheck(u, p) = 403
                /\ submitCheck(u, p) = 403
    /\ \A s \in Slots :
          /\ (req[s].op \in {"updateProject", "submitProject"} /\ Exists(req[s].pid))
                => req[s].caller = projects[req[s].pid].owner
          /\ req[s].op \in {"approveProject", "rejectProject"}
                => role(req[s].caller) = "admin"

\* C22 witness: a submitted Project, which an admin may approve or reject
\* and a non-admin may not, with an admin's approval about to be saved
C22_SubmittedAwaitingReview ==
    \E p \in DOMAIN projects, s \in Slots :
        /\ projects[p].status = "submitted"
        /\ approveCheck("admin", p) = 200
        /\ approveCheck("alice", p) = 403
        /\ submitCheck("alice", p) = 403
        /\ req[s].op = "approveProject"
        /\ req[s].pid = p

\* C23: the resubmission cycle has the stated intermediate states.  A created
\* project enters as pending (or draft) without a reason; a submission saved
\* on an editable project gives submitted; a rejection saved on a submitted
\* project gives rejected with the given reason; an owner edit saved on a
\* rejected project gives pending (or draft) with the reason cleared; an
\* approval saved on a submitted project gives approved with no reason
C23_ResubmissionSteps ==
    [][/\ \A p \in DOMAIN projects' \ DOMAIN projects :
             /\ projects'[p].status \in {"pending", "draft"}
             /\ projects'[p].rejectionReason = NoReason
       /\ \A s \in Slots :
             (req[s].pc = "save" /\ req'[s] = Idle /\ Exists(req[s].pid)) =>
                LET a == projects[req[s].pid]
                    b == projects'[req[s].pid]
                IN  /\ (req[s].op = "submitProject" /\ a.status \in Editable)
                          => b.status = "submitted" /\ b.rejectionReason = NoReason
                    /\ (req[s].op = "rejectProject" /\ a.status = "submitted")
                          => /\ b.status = "rejected"
                             /\ b.rejectionReason \in Reasons
                             /\ b.rejectionReason = req[s].upd.vals.rejectionReason
                    /\ (req[s].op = "updateProject" /\ a.status = "rejected")
                          => /\ b.status \in {"pending", "draft"}
                             /\ b.rejectionReason = NoReason
                    /\ (req[s].op = "approveProject" /\ a.status = "submitted")
                          => b.status = "approved" /\ b.rejectionReason = NoReason
      ]_vars

\* C23 witness: the end of the cycle, an approved project without a reason
\* that carries the owner's edit, which the owner sends only after a rejection
C23_ApprovedAfterRevision ==
    \E p \in DOMAIN projects :
        /\ projects[p].status = "approved"
        /\ projects[p].rejectionReason = NoReason
        /\ projects[p].price = 200

\* C24: once the stored status of an Order is paid, no step changes its
\* status or its transactionId
C24_PaidOrderImmutable ==
    [][\A o \in DOMAIN orders :
         orders[o].status = "paid"
         => /\ orders'[o].status = "paid"
            /\ orders'[o].transactionId = orders[o].transactionId
      ]_vars

\* C25: at most one processPayment call per Order gets as far as the
\* gateway: no two calls for the same Order are both past the save that
\* moves the Order to processing, where the charge request has been sent
C25_OneChargePerOrder ==
    \A s, t \in Slots :
        (/\ s # t
         /\ req[s].op = "processPayment"
         /\ req[t].op = "processPayment"
         /\ req[s].oid = req[t].oid)
        => (req[s].pc = "lock" \/ req[t].pc = "lock")

\* C26: every change of the stored status of an Order is pending to
\* processing, processing to paid or processing to failed
C26_OrderStatusFlow ==
    [][\A o \in DOMAIN orders :
         orders'[o].status # orders[o].status
         => <<orders[o].status, orders'[o].status>> \in
               {<<"pending", "processing">>, <<"processing", "paid">>,
                <<"processing", "failed">>}
      ]_vars

\* C27: processPayment by a user who is not the Order's buyer is answered
\* 403, and on a paid Order 400; a call is let past its checks, towards the
\* lock write and the gateway, only for the buyer and only on an Order it
\* read as not paid, so a refused call writes nothing and charges nothing
C27_PaymentRefused ==
    /\ [](\A u \in Users, o \in DOMAIN orders :
             /\ orders[o].user # u => payCheck(u, o) = 403
             /\ (orders[o].user = u /\ orders[o].status = "paid")
                   => payCheck(u, o) = 400)
    /\ [][\A s \in Slots :
             (req[s].op # "processPayment" /\ req'[s].op = "processPayment")
             => /\ orders[req'[s].oid].user = req'[s].caller
                /\ orders[req'[s].oid].status # "paid"
         ]_vars

\* C27 witness: a paid Order, for which a call of its buyer is refused as
\* already paid and a call of another user as unauthorized
C27_PaidOrderRefusesBoth ==
    \E o \in DOMAIN orders :
        /\ orders[o].status = "paid"
        /\ orders[o].user = "alice"
        /\ payCheck("alice", o) = 400
        /\ payCheck("bob", o) = 403

\* C28: no Order is created for a project that does not exist, that the
\* caller owns, or that is not available (not for sale, or sold): every step
\* that adds an Order adds it for a stored, available project of another user
C28_NoOrderForUnavailable ==
    [][\A o \in DOMAIN orders' \ DOMAIN orders :
         createOrderCheck(orders'[o].user, orders'[o].project) = 200
      ]_vars

\* C29: a failure that charge reports to processPayment carries the type
\* GATEWAY_ERROR when the request to the gateway failed in transport, and
\* the type DECLINED when the gateway answered with a response code other
\* than APPROVED
C29_DeclineIsNotGatewayError ==
    \A s \in Slots :
        req[s].errType # "none"
        => req[s].errType = IF req[s].rawErr THEN "GATEWAY_ERROR" ELSE "DECLINED"

\* C30: approved is terminal: a stored Project whose status is approved
\* keeps that status in every step that does not delete it
C30_ApprovedIsTerminal ==
    [][\A p \in DOMAIN projects \cap DOMAIN projects' :
         projects[p].status = "approved" => projects'[p].status = "approved"
      ]_vars

=============================================================================
